---- MODULE Spec2Model ----
(***************************************************************************)
(* A model of github.com/negasus/cache: an in-process byte cache with a    *)
(* per-entry TTL, a lazily marked "expired" set that a background loop     *)
(* clears, and a size limit enforced by an asynchronous compaction.        *)
(*                                                                         *)
(* Atomicity.  Every step that waits for a lock is its own action, so a    *)
(* state in which one goroutine holds a lock and waits for the other is    *)
(* visible.  A critical section that takes a single lock, or that takes    *)
(* its last lock, is one action together with the release: while it runs   *)
(* it waits for nothing, and the only unlocked access that can fall into   *)
(* it (the atomic add of Put) commutes with it.                            *)
(*                                                                         *)
(* Locks.  mx is taken for writing by Put, Delete, clear and compact and   *)
(* for reading by Get, Has, scanExpired and compact; no reader keeps it    *)
(* across a step, so "free" or the writer that holds it is its whole       *)
(* state.  expMx is only ever taken with Lock().                           *)
(*                                                                         *)
(* Time.  time.Now() reads the variable now, which Tick advances; two      *)
(* reads may return the same value.  The zero time.Time is 0, and the      *)
(* clock starts at 1.  PutWithTTL reads the clock once for ttl and lu.     *)
(***************************************************************************)
EXTENDS Integers, Sequences, FiniteSets, Bags, TLC

\* ---------------------------------------------------------------- bounds
MaxOps == 2       \* API calls in a run of Spec (two callers)
MaxSeqOps == 3    \* API calls in a run of SeqSpec (one caller)
MaxClock == 3
SizeLimit == 3

Threads == {"t1", "t2"}
KeySeq == <<"a", "b", "c">>
Keys == {KeySeq[x] : x \in 1..Len(KeySeq)}
\* a payload of n bytes; payloads of the lengths 1, SizeLimit - 1 and SizeLimit
Fill(n) == [j \in 1..n |-> n]
Datas == {Fill(1), Fill(SizeLimit - 1), Fill(SizeLimit)}
TTLs == {1}
CbErrs == {"error1"}

VARIABLES
    storage,    \* Cache.storage: key -> item (NoItem when the key is absent)
    expired,    \* Cache.expired: the set of keys marked for deletion
    size,       \* Cache.size: the atomic counter
    mx,         \* Cache.mx: "free" or the goroutine holding it
    expMx,      \* Cache.expMx: "free" or the goroutine holding it
    now,        \* the wall clock time.Now() reads
    cancelled,  \* ctx.Done() is closed
    th,         \* the API calls in progress, one record per calling goroutine
    scan,       \* the scanExpired goroutine: its position and its local now
    clr,        \* the clear goroutine: its position
    spawned,    \* compact goroutines started that have not taken their snapshot
    snaps,      \* compact goroutines between snapshot and eviction: bag of orders
    ops,        \* number of API calls started so far
    nkeys,      \* number of distinct keys the callers have named so far
    solo,       \* history: a Put running alone, and the Get that follows it
    lastEv      \* history: what the most recent compaction pass did

vars == <<storage, expired, size, mx, expMx, now, cancelled, th, scan, clr,
          spawned, snaps, ops, nkeys, solo, lastEv>>

\* ---------------------------------------------------------------- values
ErrNotFound == "not found"
NoErr == ""

NoItem == [id |-> 0, data |-> <<>>, ttl |-> 0, lu |-> 0]
NoRes == [data |-> <<>>, err |-> NoErr, ok |-> FALSE]
NoCb == [data |-> <<>>, err |-> NoErr]

Idle == [pc |-> "idle", op |-> "", key |-> "", data |-> <<>>, ttl |-> 0,
         cb |-> NoCb, i |-> NoItem, id |-> 0, chk |-> 0, res |-> NoRes]

NoSolo == [phase |-> "none", t |-> "", op |-> "", key |-> "", data |-> <<>>, exp |-> 0,
           at0 |-> 0, at1 |-> 0]

Present(st, k) == st[k].id # 0
Stored(st) == {k \in Keys : Present(st, k)}

RECURSIVE SumLen(_, _)
SumLen(st, ks) ==
    IF ks = {} THEN 0
    ELSE LET k == CHOOSE x \in ks : TRUE
         IN Len(st[k].data) + SumLen(st, ks \ {k})

TrueSize(st) == SumLen(st, Stored(st))

\* ------------------------------------------------------------ the API calls
CbResults == {[data |-> d, err |-> NoErr] : d \in Datas}
             \cup {[data |-> <<>>, err |-> e] : e \in CbErrs}

AllOps == {"Get", "GetOrNew", "GetOrNewWithTTL", "Has", "Delete", "Put", "PutWithTTL"}

\* the calls on the keys K with the methods O
Calls(K, O) ==
    {c \in
        {[op |-> o, key |-> k, data |-> <<>>, ttl |-> 0, cb |-> NoCb] :
            o \in {"Get", "Has", "Delete"}, k \in K}
        \cup {[op |-> "Put", key |-> k, data |-> d, ttl |-> 0, cb |-> NoCb] :
            k \in K, d \in Datas}
        \cup {[op |-> "PutWithTTL", key |-> k, data |-> d, ttl |-> x, cb |-> NoCb] :
            k \in K, d \in Datas, x \in TTLs}
        \cup {[op |-> "GetOrNew", key |-> k, data |-> <<>>, ttl |-> 0, cb |-> c] :
            k \in K, c \in CbResults}
        \cup {[op |-> "GetOrNewWithTTL", key |-> k, data |-> <<>>, ttl |-> x, cb |-> c] :
            k \in K, x \in TTLs, c \in CbResults}
     : c.op \in O}

KeyIndex(k) == CHOOSE x \in 1..Len(KeySeq) : KeySeq[x] = k
\* keys are interchangeable: a caller names a key used before or the next new one
NameableKeys == {k \in Keys : KeyIndex(k) <= nkeys + 1}

GetOps == {"Get", "GetOrNew", "GetOrNewWithTTL"}
PutOps == {"Put", "PutWithTTL"}
TTLOps == {"PutWithTTL", "GetOrNewWithTTL"}

FirstPc(op) ==
    IF op \in GetOps THEN "get"
    ELSE IF op \in PutOps THEN "put"
    ELSE IF op = "Has" THEN "has"
    ELSE "delete"

InCall(t) == th[t].pc \notin {"idle", "done"}
OthersQuiet(t) == \A u \in Threads \ {t} : ~InCall(u)

\* history only: a Put or PutWithTTL that ran with no other call in progress, then
\* the Get of its key that follows it with no other call in between; exp is the
\* expiry the write stored, at0 and at1 the clock when that Get began and returned
SoloOnStart(t, c) ==
    IF c.op \in PutOps /\ Len(c.data) < SizeLimit /\ OthersQuiet(t)
    THEN [phase |-> "put", t |-> t, op |-> c.op, key |-> c.key, data |-> c.data,
          exp |-> 0, at0 |-> 0, at1 |-> 0]
    ELSE IF c.op = "Get" /\ solo.phase = "putdone" /\ solo.key = c.key /\ OthersQuiet(t)
    THEN [solo EXCEPT !.phase = "get", !.t = t, !.at0 = now]
    ELSE NoSolo

SoloOnGetReturn(t) ==
    IF solo.phase = "get" /\ solo.t = t
    THEN [solo EXCEPT !.phase = "getdone", !.at1 = now]
    ELSE solo

\* a caller invokes one of the public methods
StartCall(t, K, O, n) ==
    /\ th[t].pc = "idle"
    /\ ops < n
    /\ ops = 0 => t = "t1"     \* callers are interchangeable: t1 calls first
    /\ \E c \in Calls(K \cap NameableKeys, O) :
        /\ nkeys' = IF KeyIndex(c.key) > nkeys THEN KeyIndex(c.key) ELSE nkeys
        /\ th' = [th EXCEPT ![t] = [Idle EXCEPT !.pc = FirstPc(c.op), !.op = c.op,
                                     !.key = c.key, !.data = c.data, !.ttl = c.ttl,
                                     !.cb = c.cb, !.id = ops + 1]]
        /\ solo' = SoloOnStart(t, c)
    /\ ops' = ops + 1
    /\ UNCHANGED <<storage, expired, size, mx, expMx, now, cancelled, scan, clr,
                   spawned, snaps, lastEv>>

\* Get has failed with ErrNotFound: Get itself returns it, GetOrNew* go on to cb
GetMiss(r) ==
    IF r.op = "Get"
    THEN [r EXCEPT !.pc = "done", !.res = [NoRes EXCEPT !.err = ErrNotFound]]
    ELSE [r EXCEPT !.pc = "cb"]

\* Get, lines 82-87: the lookup under the read lock
GetLookup(t) ==
    /\ th[t].pc = "get"
    /\ mx = "free"
    /\ LET i == storage[th[t].key] IN
        IF ~Present(storage, th[t].key)
        THEN /\ th' = [th EXCEPT ![t] = GetMiss(th[t])]
             /\ solo' = IF th[t].op = "Get" THEN SoloOnGetReturn(t) ELSE solo
        ELSE /\ th' = [th EXCEPT ![t] = [th[t] EXCEPT !.pc = "get_check", !.i = i]]
             /\ solo' = solo
    /\ UNCHANGED <<storage, expired, size, mx, expMx, now, cancelled, scan, clr,
                   spawned, snaps, ops, nkeys, lastEv>>

\* !i.ttl.IsZero() && i.ttl.Before(time.Now())
IsExpired(ttl, clock) == ttl # 0 /\ ttl < clock

\* Get, line 89: the expiry test against the clock
GetCheck(t) ==
    /\ th[t].pc = "get_check"
    /\ th' = [th EXCEPT ![t] = [th[t] EXCEPT
                !.pc = IF IsExpired(th[t].i.ttl, now) THEN "get_mark" ELSE "get_lu",
                !.chk = now]]
    /\ UNCHANGED <<storage, expired, size, mx, expMx, now, cancelled, scan, clr,
                   spawned, snaps, ops, nkeys, solo, lastEv>>

\* an eager Get: the expired entry is dropped at once instead of being marked
GetMarkMut(t) ==
    /\ th[t].pc = "get_mark"
    /\ expMx = "free"
    /\ storage' = [storage EXCEPT ![th[t].key] = NoItem]
    /\ size' = size - Len(storage[th[t].key].data)
    /\ th' = [th EXCEPT ![t] = GetMiss(th[t])]
    /\ solo' = IF th[t].op = "Get" THEN SoloOnGetReturn(t) ELSE solo
    /\ UNCHANGED <<expired, mx, expMx, now, cancelled, scan, clr,
                   spawned, snaps, ops, nkeys, lastEv>>

\* Get, lines 90-93: mark the key under expMx and fail
GetMark(t) ==
    /\ th[t].pc = "get_mark"
    /\ expMx = "free"
    /\ expired' = expired \cup {th[t].key}
    /\ th' = [th EXCEPT ![t] = GetMiss(th[t])]
    /\ solo' = IF th[t].op = "Get" THEN SoloOnGetReturn(t) ELSE solo
    /\ UNCHANGED <<storage, size, mx, expMx, now, cancelled, scan, clr,
                   spawned, snaps, ops, nkeys, lastEv>>

\* Get, lines 96-98: i.lu = time.Now() through the pointer read at the lookup,
\* with no lock held; the item may no longer be the one in the map
GetTouch(t) ==
    /\ th[t].pc = "get_lu"
    /\ storage' = IF storage[th[t].key].id = th[t].i.id
                  THEN [storage EXCEPT ![th[t].key].lu = now]
                  ELSE storage
    /\ th' = [th EXCEPT ![t] = [th[t] EXCEPT !.pc = "done",
                                 !.res = [NoRes EXCEPT !.data = th[t].i.data]]]
    /\ solo' = SoloOnGetReturn(t)
    /\ UNCHANGED <<expired, size, mx, expMx, now, cancelled, scan, clr,
                   spawned, snaps, ops, nkeys, lastEv>>

\* the callback without the early return on its error: the result is stored anyway
CallbackMut(t) ==
    /\ th[t].pc = "cb"
    /\ th' = [th EXCEPT ![t] = [th[t] EXCEPT !.pc = "put", !.data = th[t].cb.data]]
    /\ UNCHANGED <<storage, expired, size, mx, expMx, now, cancelled, scan, clr,
                   spawned, snaps, ops, nkeys, solo, lastEv>>

\* GetOrNew / GetOrNewWithTTL, lines 107-112 and 123-128: the callback
Callback(t) ==
    /\ th[t].pc = "cb"
    /\ th' = [th EXCEPT ![t] =
                IF th[t].cb.err # NoErr
                THEN [th[t] EXCEPT !.pc = "done", !.res = [NoRes EXCEPT !.err = th[t].cb.err]]
                ELSE [th[t] EXCEPT !.pc = "put", !.data = th[t].cb.data]]
    /\ UNCHANGED <<storage, expired, size, mx, expMx, now, cancelled, scan, clr,
                   spawned, snaps, ops, nkeys, solo, lastEv>>

\* what the caller gets once Put / PutWithTTL has returned
AfterPut(r) ==
    IF r.op \in PutOps
    THEN [r EXCEPT !.pc = "done"]
    ELSE [r EXCEPT !.pc = "done", !.res = [NoRes EXCEPT !.data = r.data]]

\* the size test with > for >=: a payload of exactly sizeLimit bytes is stored
OversizeMut(d) == Len(d) > SizeLimit

\* int64(len(data)) >= c.sizeLimit
Oversize(d) == Len(d) >= SizeLimit

\* Put / PutWithTTL, lines 160-162: the payload is not storable
PutOversize(t) ==
    /\ th[t].pc = "put"
    /\ Oversize(th[t].data)
    /\ th' = [th EXCEPT ![t] = AfterPut(th[t])]
    /\ UNCHANGED <<storage, expired, size, mx, expMx, now, cancelled, scan, clr,
                   spawned, snaps, ops, nkeys, solo, lastEv>>

\* Put / PutWithTTL, line 164: c.mx.Lock()
PutLock(t) ==
    /\ th[t].pc = "put"
    /\ ~Oversize(th[t].data)
    /\ mx = "free"
    /\ mx' = t
    /\ th' = [th EXCEPT ![t].pc = "put_lockexp"]
    /\ UNCHANGED <<storage, expired, size, expMx, now, cancelled, scan, clr,
                   spawned, snaps, ops, nkeys, solo, lastEv>>

\* Put / PutWithTTL, line 165: c.expMx.Lock(), with mx held
PutLockExp(t) ==
    /\ th[t].pc = "put_lockexp"
    /\ expMx = "free"
    /\ expMx' = t
    /\ th' = [th EXCEPT ![t].pc = "put_write"]
    /\ UNCHANGED <<storage, expired, size, mx, now, cancelled, scan, clr,
                   spawned, snaps, ops, nkeys, solo, lastEv>>

\* the item Put / PutWithTTL builds
NewItem(r, clock) ==
    [id |-> r.id, data |-> r.data,
     ttl |-> IF r.op \in TTLOps THEN clock + r.ttl ELSE 0,
     lu |-> clock]

\* Put / PutWithTTL, lines 166-172: store the item, unmark the key, unlock both;
\* chk keeps the time.Now() the item was built with
PutWrite(t) ==
    /\ th[t].pc = "put_write"
    /\ storage' = [storage EXCEPT ![th[t].key] = NewItem(th[t], now)]
    /\ expired' = expired \ {th[t].key}
    /\ expMx' = "free"
    /\ mx' = "free"
    /\ th' = [th EXCEPT ![t] = [th[t] EXCEPT !.pc = "put_add", !.chk = now]]
    /\ solo' = IF solo.phase = "put" /\ solo.t = t
               THEN [solo EXCEPT !.exp = storage'[th[t].key].ttl]
               ELSE solo
    /\ UNCHANGED <<size, now, cancelled, scan, clr, spawned, snaps, ops, nkeys, lastEv>>

\* Put / PutWithTTL with the add of len(data) lost: size keeps its old value
PutAddMut(t) ==
    /\ th[t].pc = "put_add"
    /\ spawned' = IF size > SizeLimit THEN spawned + 1 ELSE spawned
    /\ th' = [th EXCEPT ![t] = AfterPut(th[t])]
    /\ solo' = IF solo.phase = "put" /\ solo.t = t
               THEN [solo EXCEPT !.phase = "putdone"]
               ELSE solo
    /\ UNCHANGED <<storage, expired, size, mx, expMx, now, cancelled, scan, clr,
                   snaps, ops, nkeys, lastEv>>

\* Put / PutWithTTL, lines 174-177: the atomic add and the compaction trigger
PutAdd(t) ==
    /\ th[t].pc = "put_add"
    /\ size' = size + Len(th[t].data)
    /\ spawned' = IF size' > SizeLimit THEN spawned + 1 ELSE spawned
    /\ th' = [th EXCEPT ![t] = AfterPut(th[t])]
    /\ solo' = IF solo.phase = "put" /\ solo.t = t
               THEN [solo EXCEPT !.phase = "putdone"]
               ELSE solo
    /\ UNCHANGED <<storage, expired, mx, expMx, now, cancelled, scan, clr,
                   snaps, ops, nkeys, lastEv>>

\* i.ttl.IsZero() || i.ttl.After(time.Now())
HasVisible(i, clock) == i.ttl = 0 \/ i.ttl > clock

\* Has, lines 133-143
Has(t) ==
    /\ th[t].pc = "has"
    /\ mx = "free"
    /\ th' = [th EXCEPT ![t] = [th[t] EXCEPT !.pc = "done",
                !.res = [NoRes EXCEPT !.ok = /\ Present(storage, th[t].key)
                                              /\ HasVisible(storage[th[t].key], now)]]]
    /\ UNCHANGED <<storage, expired, size, mx, expMx, now, cancelled, scan, clr,
                   spawned, snaps, ops, nkeys, solo, lastEv>>

\* Delete without the atomic add of -len: the entry goes, size stays
DeleteMut(t) ==
    /\ th[t].pc = "delete"
    /\ mx = "free"
    /\ IF Present(storage, th[t].key)
       THEN storage' = [storage EXCEPT ![th[t].key] = NoItem]
       ELSE UNCHANGED storage
    /\ th' = [th EXCEPT ![t] = [th[t] EXCEPT !.pc = "done", !.i = storage[th[t].key]]]
    /\ UNCHANGED <<size, expired, mx, expMx, now, cancelled, scan, clr,
                   spawned, snaps, ops, nkeys, solo, lastEv>>

\* Delete, lines 145-157; i is the item the lookup of line 149 found
Delete(t) ==
    /\ th[t].pc = "delete"
    /\ mx = "free"
    /\ IF Present(storage, th[t].key)
       THEN /\ storage' = [storage EXCEPT ![th[t].key] = NoItem]
            /\ size' = size - Len(storage[th[t].key].data)
       ELSE UNCHANGED <<storage, size>>
    /\ th' = [th EXCEPT ![t] = [th[t] EXCEPT !.pc = "done", !.i = storage[th[t].key]]]
    /\ UNCHANGED <<expired, mx, expMx, now, cancelled, scan, clr,
                   spawned, snaps, ops, nkeys, solo, lastEv>>

\* the caller has its result and may call again
Return(t) ==
    /\ th[t].pc = "done"
    /\ th' = [th EXCEPT ![t] = Idle]
    /\ solo' = IF solo.phase = "getdone" /\ solo.t = t THEN NoSolo ELSE solo
    /\ UNCHANGED <<storage, expired, size, mx, expMx, now, cancelled, scan, clr,
                   spawned, snaps, ops, nkeys, lastEv>>

\* ------------------------------------------------------------ compaction
\* the orders in which `for key, i := range c.storage` may visit the keys
Perms(S) ==
    {p \in [1..Cardinality(S) -> S] : \A x, y \in 1..Cardinality(S) : p[x] = p[y] => x = y}

\* sort.Ints
RECURSIVE SortInts(_)
SortInts(t) ==
    IF t = <<>> THEN <<>>
    ELSE LET m == CHOOSE x \in 1..Len(t) : \A y \in 1..Len(t) : t[x] <= t[y]
         IN <<t[m]>> \o SortInts(SubSeq(t, 1, m - 1) \o SubSeq(t, m + 1, Len(t)))

\* compact, lines 11-22: s maps a last-used time to the key visited last with
\* that time, t lists the times of all keys; the result is s[t[1]], s[t[2]], ...
\* for the sorted t, the keys the eviction loop will try
SnapshotOrder(st, visit) ==
    LET t == [x \in 1..Len(visit) |-> st[visit[x]].lu]
        s == [n \in {t[x] : x \in 1..Len(visit)} |->
                LET last == CHOOSE x \in 1..Len(visit) :
                        /\ t[x] = n
                        /\ \A y \in 1..Len(visit) : t[y] = n => y <= x
                IN visit[last]]
        sorted == SortInts(t)
    IN [x \in 1..Len(visit) |-> s[sorted[x]]]

\* compact, lines 26-38: the eviction loop from position j of the order on
RECURSIVE EvictFrom(_, _, _, _, _)
EvictFrom(order, j, st, sz, ev) ==
    IF j > Len(order) THEN [storage |-> st, size |-> sz, ev |-> ev]
    ELSE LET k == order[j] IN
         IF ~Present(st, k) THEN EvictFrom(order, j + 1, st, sz, ev)
         ELSE LET st2 == [st EXCEPT ![k] = NoItem]
                  sz2 == sz - Len(st[k].data)
                  ev2 == Append(ev, [key |-> k, before |-> sz])
              IN IF sz2 < SizeLimit
                 THEN [storage |-> st2, size |-> sz2, ev |-> ev2]
                 ELSE EvictFrom(order, j + 1, st2, sz2, ev2)

\* compact, lines 14-22: the snapshot under the read lock, and the sort
CompactSnapshot ==
    /\ spawned > 0
    /\ mx = "free"
    /\ \E visit \in Perms(Stored(storage)) :
        snaps' = snaps (+) SetToBag({SnapshotOrder(storage, visit)})
    /\ spawned' = spawned - 1
    /\ UNCHANGED <<storage, expired, size, mx, expMx, now, cancelled, th, scan, clr,
                   ops, nkeys, solo, lastEv>>

\* compact, lines 24-38: the eviction under the write lock
CompactEvict ==
    /\ mx = "free"
    /\ \E order \in BagToSet(snaps) :
        LET r == EvictFrom(order, 1, storage, size, <<>>) IN
        /\ storage' = r.storage
        /\ size' = r.size
        /\ lastEv' = r.ev
        /\ snaps' = snaps (-) SetToBag({order})
    /\ UNCHANGED <<expired, mx, expMx, now, cancelled, th, scan, clr, spawned, ops, nkeys, solo>>

\* ------------------------------------------------------------ scanExpired
\* scanExpired, lines 43-49: leave when ctx is done, else read the clock
ScanStart ==
    /\ scan.pc = "start"
    /\ scan' = IF cancelled THEN [pc |-> "exit", now |-> 0]
               ELSE [pc |-> "lockexp", now |-> now]
    /\ UNCHANGED <<storage, expired, size, mx, expMx, now, cancelled, th, clr,
                   spawned, snaps, ops, nkeys, solo, lastEv>>

\* scanExpired, line 51: c.expMx.Lock()
ScanLockExp ==
    /\ scan.pc = "lockexp"
    /\ expMx = "free"
    /\ expMx' = "scan"
    /\ scan' = [scan EXCEPT !.pc = "lockmx"]
    /\ UNCHANGED <<storage, expired, size, mx, now, cancelled, th, clr,
                   spawned, snaps, ops, nkeys, solo, lastEv>>

\* scanExpired, lines 52-61: c.mx.RLock() with expMx held, the marking pass,
\* both unlocks, and the sleep that ends with the next iteration
ScanPass ==
    /\ scan.pc = "lockmx"
    /\ mx = "free"
    /\ expired' = expired \cup
            {k \in Stored(storage) : IsExpired(storage[k].ttl, scan.now)}
    /\ expMx' = "free"
    /\ scan' = [pc |-> "start", now |-> 0]
    /\ UNCHANGED <<storage, size, mx, now, cancelled, th, clr,
                   spawned, snaps, ops, nkeys, solo, lastEv>>

\* ------------------------------------------------------------ clear
\* clear, lines 67-71: leave when ctx is done
ClearStart ==
    /\ clr = "start"
    /\ clr' = IF cancelled THEN "exit" ELSE "lockexp"
    /\ UNCHANGED <<storage, expired, size, mx, expMx, now, cancelled, th, scan,
                   spawned, snaps, ops, nkeys, solo, lastEv>>

\* clear, line 73: c.expMx.Lock()
ClearLockExp ==
    /\ clr = "lockexp"
    /\ expMx = "free"
    /\ expMx' = "clear"
    /\ clr' = "lockmx"
    /\ UNCHANGED <<storage, expired, size, mx, now, cancelled, th, scan,
                   spawned, snaps, ops, nkeys, solo, lastEv>>

\* clear, lines 74-87: c.mx.Lock() with expMx held, the removal of every marked
\* key, both unlocks, and the sleep that ends with the next iteration
ClearPass ==
    /\ clr = "lockmx"
    /\ mx = "free"
    /\ storage' = [k \in Keys |-> IF k \in expired THEN NoItem ELSE storage[k]]
    /\ size' = size - SumLen(storage, expired \cap Stored(storage))
    /\ expired' = {}
    /\ expMx' = "free"
    /\ clr' = "start"
    /\ UNCHANGED <<mx, now, cancelled, th, scan, spawned, snaps, ops, nkeys, solo, lastEv>>

\* ------------------------------------------------------------ environment
\* the wall clock advances
Tick ==
    /\ now < MaxClock
    /\ now' = now + 1
    /\ UNCHANGED <<storage, expired, size, mx, expMx, cancelled, th, scan, clr,
                   spawned, snaps, ops, nkeys, solo, lastEv>>

\* the owner of ctx cancels it (only CancelSpec has this step: the other
\* specifications pass a context that is never cancelled, as
\* New(context.Background()) does)
Cancel ==
    /\ ~cancelled
    /\ cancelled' = TRUE
    /\ UNCHANGED <<storage, expired, size, mx, expMx, now, th, scan, clr,
                   spawned, snaps, ops, nkeys, solo, lastEv>>

\* ------------------------------------------------------------ the system
\* New, lines 62-79: empty maps, both loops started
Init ==
    /\ storage = [k \in Keys |-> NoItem]
    /\ expired = {}
    /\ size = 0
    /\ mx = "free"
    /\ expMx = "free"
    /\ now = 1
    /\ cancelled = FALSE
    /\ th = [t \in Threads |-> Idle]
    /\ scan = [pc |-> "start", now |-> 0]
    /\ clr = "start"
    /\ spawned = 0
    /\ snaps = EmptyBag
    /\ ops = 0
    /\ nkeys = 0
    /\ solo = NoSolo
    /\ lastEv = <<>>

Next ==
    \/ \E t \in Threads :
        \/ StartCall(t, {"a", "b"}, AllOps, MaxOps)
        \/ GetLookup(t)
        \/ GetCheck(t)
        \/ GetMark(t)
        \/ GetTouch(t)
        \/ Callback(t)
        \/ PutOversize(t)
        \/ PutLock(t)
        \/ PutLockExp(t)
        \/ PutWrite(t)
        \/ PutAdd(t)
        \/ Has(t)
        \/ Delete(t)
        \/ Return(t)
    \/ CompactSnapshot
    \/ CompactEvict
    \/ ScanStart
    \/ ScanLockExp
    \/ ScanPass
    \/ ClearStart
    \/ ClearLockExp
    \/ ClearPass
    \/ Tick

Spec == Init /\ [][Next]_vars

\* one caller writing and reading, three keys, every background goroutine
SeqNext ==
    \/ StartCall("t1", Keys, {"Put", "PutWithTTL", "Get"}, MaxSeqOps)
    \/ GetLookup("t1")
    \/ GetCheck("t1")
    \/ GetMark("t1")
    \/ GetTouch("t1")
    \/ PutOversize("t1")
    \/ PutLock("t1")
    \/ PutLockExp("t1")
    \/ PutWrite("t1")
    \/ PutAdd("t1")
    \/ Return("t1")
    \/ CompactSnapshot
    \/ CompactEvict
    \/ ScanStart
    \/ ScanLockExp
    \/ ScanPass
    \/ ClearStart
    \/ ClearLockExp
    \/ ClearPass
    \/ Tick

SeqSpec == Init /\ [][SeqNext]_vars

\* one caller, one PutWithTTL after another and Gets, under the Go scheduler's and
\* sync.Mutex's fairness: every goroutine that can run, or that waits for a lock
\* which is released again and again, eventually takes its step
FairNext ==
    \/ StartCall("t1", {"a", "b"}, {"PutWithTTL", "Get"}, MaxOps)
    \/ GetLookup("t1")
    \/ GetCheck("t1")
    \/ GetMark("t1")
    \/ GetTouch("t1")
    \/ PutOversize("t1")
    \/ PutLock("t1")
    \/ PutLockExp("t1")
    \/ PutWrite("t1")
    \/ PutAdd("t1")
    \/ Return("t1")
    \/ ScanStart
    \/ ScanLockExp
    \/ ScanPass
    \/ ClearStart
    \/ ClearLockExp
    \/ ClearPass
    \/ Tick

CallerStep ==
    \/ GetLookup("t1") \/ GetCheck("t1") \/ GetMark("t1") \/ GetTouch("t1")
    \/ PutOversize("t1") \/ PutLock("t1") \/ PutLockExp("t1") \/ PutWrite("t1")
    \/ PutAdd("t1") \/ Return("t1")

FairSpec ==
    /\ Init
    /\ [][FairNext]_vars
    /\ SF_vars(CallerStep)
    /\ SF_vars(ScanStart \/ ScanLockExp \/ ScanPass)
    /\ SF_vars(ClearStart \/ ClearLockExp \/ ClearPass)
    /\ WF_vars(Tick)

\* one caller that fills the cache through GetOrNew / GetOrNewWithTTL after writes
\* with a TTL, every background goroutine
FillNext ==
    \/ StartCall("t1", {"a", "b"}, {"PutWithTTL", "GetOrNew", "GetOrNewWithTTL"}, MaxSeqOps)
    \/ GetLookup("t1")
    \/ GetCheck("t1")
    \/ GetMark("t1")
    \/ GetTouch("t1")
    \/ Callback("t1")
    \/ PutOversize("t1")
    \/ PutLock("t1")
    \/ PutLockExp("t1")
    \/ PutWrite("t1")
    \/ PutAdd("t1")
    \/ Return("t1")
    \/ CompactSnapshot
    \/ CompactEvict
    \/ ScanStart
    \/ ScanLockExp
    \/ ScanPass
    \/ ClearStart
    \/ ClearLockExp
    \/ ClearPass
    \/ Tick

FillSpec == Init /\ [][FillNext]_vars

\* FairSpec with a context that its owner may cancel at any moment
CancelNext ==
    \/ FairNext
    \/ Cancel

CancelSpec ==
    /\ Init
    /\ [][CancelNext]_vars
    /\ SF_vars(CallerStep)
    /\ SF_vars(ScanStart \/ ScanLockExp \/ ScanPass)
    /\ SF_vars(ClearStart \/ ClearLockExp \/ ClearPass)
    /\ WF_vars(Tick)

\* two callers racing on one key: writes with and without a TTL against reads,
\* every background goroutine
RaceNext ==
    \/ \E t \in Threads :
        \/ StartCall(t, {"a"}, {"Put", "PutWithTTL", "Get"}, MaxSeqOps)
        \/ GetLookup(t)
        \/ GetCheck(t)
        \/ GetMark(t)
        \/ GetTouch(t)
        \/ PutOversize(t)
        \/ PutLock(t)
        \/ PutLockExp(t)
        \/ PutWrite(t)
        \/ PutAdd(t)
        \/ Return(t)
    \/ CompactSnapshot
    \/ CompactEvict
    \/ ScanStart
    \/ ScanLockExp
    \/ ScanPass
    \/ ClearStart
    \/ ClearLockExp
    \/ ClearPass
    \/ Tick

RaceSpec == Init /\ [][RaceNext]_vars

\* ================================================================ claims
Quiescent == \A t \in Threads : ~InCall(t)
CompactionsDone == spawned = 0 /\ snaps = EmptyBag

\* C1: a Put(k, d) with len(d) < sizeLimit followed by Get(k), no other API call in
\* between, returns exactly d and no error (compaction may or may not have run).
C1_PutGetRoundTrip ==
    (solo.phase = "getdone" /\ solo.op = "Put")
        => th[solo.t].res = [data |-> solo.data, err |-> NoErr, ok |-> FALSE]

\* C2: after PutWithTTL(k, d, ttl), a Get(k) that returns while the clock has not
\* passed expiresAt returns d, a Get(k) that begins after expiresAt returns
\* ErrNotFound, and no Get returns the data of an item whose expiresAt was before
\* the clock value Get compared it with.
C2_TTLVisibility ==
    /\ (solo.phase = "getdone" /\ solo.op = "PutWithTTL") =>
        /\ solo.at1 <= solo.exp =>
            th[solo.t].res = [data |-> solo.data, err |-> NoErr, ok |-> FALSE]
        /\ solo.at0 > solo.exp => th[solo.t].res.err = ErrNotFound
    /\ \A t \in Threads :
        (th[t].pc = "done" /\ th[t].op = "Get" /\ th[t].res.err = NoErr) =>
            /\ th[t].i.id # 0
            /\ th[t].res.data = th[t].i.data
            /\ ~(th[t].i.ttl # 0 /\ th[t].i.ttl < th[t].chk)

\* the two parts of C2 that are about the expiry test alone
C2_ExpiredNeverReturned ==
    /\ (solo.phase = "getdone" /\ solo.op = "PutWithTTL" /\ solo.at0 > solo.exp)
            => th[solo.t].res.err = ErrNotFound
    /\ \A t \in Threads :
        (th[t].pc = "done" /\ th[t].op = "Get" /\ th[t].res.err = NoErr) =>
            /\ th[t].i.id # 0
            /\ th[t].res.data = th[t].i.data
            /\ ~(th[t].i.ttl # 0 /\ th[t].i.ttl < th[t].chk)

\* C3: once no API call is in progress and every triggered compaction has
\* completed, totalSize <= sizeLimit.
C3_SizeBudgetConvergence ==
    (Quiescent /\ CompactionsDone) => size <= SizeLimit

\* C4: whenever no Put, PutWithTTL or Delete is in progress (clear and compact
\* passes are single steps), totalSize is the sum of len(data) over storage.
C4_SizeAccounting ==
    Quiescent => size = TrueSize(storage)

\* C5: no state in which a Put holds mx and waits for expMx while the goroutine
\* holding expMx (scanExpired or clear) waits for mx.
C5_NoDeadlock ==
    ~ \E t \in Threads :
        /\ th[t].pc = "put_lockexp" /\ mx = t
        /\ \/ expMx = "scan" /\ scan.pc = "lockmx"
           \/ expMx = "clear" /\ clr = "lockmx"

\* the compaction pass that takes order out of snaps in this step
IsEvictPass(order) ==
    /\ order \in BagToSet(snaps)
    /\ snaps' = snaps (-) SetToBag({order})

\* a pass with nothing concurrent: no API call in progress, no other compaction,
\* and the order is a snapshot of the storage as it still is
QuietPass(order) ==
    /\ Quiescent
    /\ spawned = 0
    /\ BagCardinality(snaps) = 1
    /\ order \in {SnapshotOrder(storage, v) : v \in Perms(Stored(storage))}

EvictedKeys(ev) == {ev[x].key : x \in 1..Len(ev)}
EvictPos(ev, k) == CHOOSE x \in 1..Len(ev) : ev[x].key = k

\* C6: in a compaction pass with nothing concurrent, if x is evicted then every
\* entry y with a strictly older lastUsed is evicted too, and before x.
C6_EvictionOrder ==
    [][\A order \in BagToSet(snaps) :
        (IsEvictPass(order) /\ QuietPass(order)) =>
            \A x, y \in Stored(storage) :
                (storage[y].lu < storage[x].lu /\ x \in EvictedKeys(lastEv')) =>
                    /\ y \in EvictedKeys(lastEv')
                    /\ EvictPos(lastEv', y) < EvictPos(lastEv', x)]_vars

\* the stored keys in an ascending lastUsed order
LruOrders ==
    {v \in Perms(Stored(storage)) :
        \A x, y \in 1..Len(v) : x < y => storage[v[x]].lu <= storage[v[y]].lu}
RECURSIVE PrefixLen(_, _)
PrefixLen(v, n) == IF n = 0 THEN 0 ELSE Len(storage[v[n]].data) + PrefixLen(v, n - 1)

\* C7: with nothing concurrent, a Put that leaves totalSize <= sizeLimit starts no
\* compaction; the compaction after a Put that leaves totalSize > sizeLimit removes
\* exactly the shortest prefix of the ascending lastUsed order that brings
\* totalSize strictly below sizeLimit, every other entry stays, and totalSize
\* drops by the evicted lengths.
C7_ExactEvictionSet ==
    [][/\ \A t \in Threads :
            (th[t].pc = "put_add" /\ th'[t].pc = "done" /\ size' <= SizeLimit)
                => (spawned' = spawned /\ storage' = storage)
       /\ \A order \in BagToSet(snaps) :
            (IsEvictPass(order) /\ QuietPass(order) /\ size > SizeLimit) =>
                \E v \in LruOrders : \E n \in 1..Len(v) :
                    /\ size - PrefixLen(v, n) < SizeLimit
                    /\ \A m \in 0..(n - 1) : size - PrefixLen(v, m) >= SizeLimit
                    /\ storage' = [k \in Keys |->
                            IF k \in {v[x] : x \in 1..n} THEN NoItem ELSE storage[k]]
                    /\ size' = size - PrefixLen(v, n)]_vars

ItemIds == 1..(MaxOps + MaxSeqOps)
StoredItem(id) == \E k \in Keys : storage[k].id = id
ExpiredItem(id) == \E k \in Keys : storage[k].id = id /\ IsExpired(storage[k].ttl, now)

\* C8: every stored entry whose expiresAt has passed is eventually absent from
\* storage (removed by clear, or overwritten or deleted before that).
C8_EventualRemoval ==
    \A id \in ItemIds : ExpiredItem(id) ~> ~StoredItem(id)

\* C9 as claimed: a Put / PutWithTTL of data with len >= sizeLimit changes neither
\* storage, the expired set nor totalSize, starts no compaction, and a Get of
\* that key right after it is NotFound.
C9_OversizeThenNotFound ==
    [][\A t \in Threads :
        (th'[t] # th[t] /\ th'[t].op \in PutOps /\ Len(th'[t].data) >= SizeLimit) =>
            /\ th'[t].pc \in {"put", "done"}
            /\ UNCHANGED <<storage, expired, size, spawned, snaps>>
            /\ th'[t].pc = "done" =>
                \/ storage'[th'[t].key].id = 0
                \/ (storage'[th'[t].key].ttl # 0 /\ storage'[th'[t].key].ttl < now')]_vars

\* C9 amended: a Put / PutWithTTL of data with len >= sizeLimit changes neither
\* storage, the expired set nor totalSize and starts no compaction; the call does
\* nothing but return, so an entry already stored under the key stays as it was.
C9_OversizeNoOp ==
    [][\A t \in Threads :
        (th'[t] # th[t] /\ th'[t].op \in PutOps /\ Len(th'[t].data) >= SizeLimit) =>
            /\ th'[t].pc \in {"put", "done"}
            /\ UNCHANGED <<storage, expired, size, spawned, snaps>>]_vars

C9_Witness ==
    \E t \in Threads :
        /\ th[t].pc = "done" /\ th[t].op \in PutOps /\ Len(th[t].data) >= SizeLimit
        /\ storage[th[t].key].id # 0
        /\ storage[th[t].key].ttl = 0

\* C10: when GetOrNew / GetOrNewWithTTL misses and the callback fails, the call
\* returns the callback's error and changes neither storage nor totalSize.
C10_CallbackFailure ==
    [][\A t \in Threads :
        (/\ th'[t] # th[t]
         /\ th[t].op \in {"GetOrNew", "GetOrNewWithTTL"}
         /\ th[t].cb.err # NoErr
         /\ th[t].pc # "get_lu") =>
            /\ storage' = storage
            /\ size' = size
            /\ th[t].pc = "cb" =>
                /\ th'[t].pc = "done"
                /\ th'[t].res = [data |-> <<>>, err |-> th[t].cb.err, ok |-> FALSE]]_vars

C10_Witness ==
    \E t \in Threads :
        /\ th[t].pc = "done"
        /\ th[t].op \in {"GetOrNew", "GetOrNewWithTTL"}
        /\ th[t].res.err \in CbErrs
        /\ storage[th[t].key].id # 0

\* C11: GetOrNew / GetOrNewWithTTL call cb exactly when their Get misses; on a hit
\* they return the cached data and the storage map keeps its entries (only lastUsed
\* is refreshed); when cb returns d with len(d) < sizeLimit they return d, and at
\* that return storage holds d under the key, expiring ttl after the clock value
\* of the write in the TTL variant and never otherwise (or, in the TTL variant,
\* that expiry has already passed).
C11_ComputeOnMiss ==
    [][\A t \in Threads :
        (th'[t] # th[t] /\ th[t].op \in {"GetOrNew", "GetOrNewWithTTL"}) =>
            /\ th'[t].pc = "cb" <=>
                \/ th[t].pc = "get" /\ ~Present(storage, th[t].key)
                \/ th[t].pc = "get_mark"
            /\ th[t].pc = "get_lu" =>
                /\ th'[t].pc = "done"
                /\ th'[t].res = [data |-> th[t].i.data, err |-> NoErr, ok |-> FALSE]
                /\ \A k \in Keys : storage'[k] = [storage[k] EXCEPT !.lu = storage'[k].lu]
            /\ (th[t].pc = "put_add" /\ Len(th[t].data) < SizeLimit) =>
                /\ th'[t].pc = "done"
                /\ th'[t].res = [data |-> th[t].cb.data, err |-> NoErr, ok |-> FALSE]
                /\ \/ storage'[th[t].key] = NewItem(th[t], th[t].chk)
                   \/ /\ th[t].op = "GetOrNewWithTTL"
                      /\ IsExpired(th[t].chk + th[t].ttl, now')]_vars

\* C12: Has(k) returns true exactly when a Get(k) in the same state and at the same
\* clock value would return data (the key is stored and Get's expiry test does not
\* fire), and Has changes neither storage with its lastUsed fields, the expired
\* set nor totalSize.
C12_HasAsGet ==
    [][\A t \in Threads :
        (th[t].pc = "has" /\ th'[t] # th[t]) =>
            /\ th'[t].res.ok = (/\ Present(storage, th[t].key)
                                /\ ~IsExpired(storage[th[t].key].ttl, now))
            /\ UNCHANGED <<storage, expired, size>>]_vars

\* C13: Delete(k) returns without an error; after it k is absent from storage, so
\* that Get(k) is NotFound and Has(k) false; totalSize drops by exactly the length
\* of the removed entry, every other entry is untouched, and a Delete of a key
\* that is absent (as the second of two Deletes finds it) leaves storage, the
\* expired set, totalSize and the compactions as they were.
C13_Delete ==
    [][\A t \in Threads :
        (th[t].pc = "delete" /\ th'[t] # th[t]) =>
            /\ th'[t].pc = "done"
            /\ th'[t].res = NoRes
            /\ ~Present(storage', th[t].key)
            /\ \A k \in Keys \ {th[t].key} : storage'[k] = storage[k]
            /\ IF Present(storage, th[t].key)
               THEN size' = size - Len(storage[th[t].key].data)
               ELSE UNCHANGED <<storage, expired, size, spawned, snaps>>]_vars

C13_Witness ==
    \E t \in Threads :
        /\ th[t].pc = "done" /\ th[t].op = "Delete"
        /\ th[t].i.id # 0 /\ Len(th[t].i.data) > 0
        /\ ~Present(storage, th[t].key)
        /\ size = TrueSize(storage)

\* C14: once ctx is cancelled, scanExpired and clear both eventually return, and
\* once both have returned neither runs again, and the expired set and storage
\* change only in steps of the callers.
C14_CancellationStops ==
    /\ cancelled ~> (scan.pc = "exit" /\ clr = "exit")
    /\ [][(scan.pc = "exit" /\ clr = "exit") =>
            /\ scan' = scan
            /\ clr' = clr
            /\ th' = th => (storage' = storage /\ expired' = expired)]_vars

\* C15: in every reachable state every key of the expired set is a key of storage.
C15_PendingInStorage ==
    expired \subseteq Stored(storage)

\* C16: every entry a clear pass removes has an expiresAt, and that expiresAt is
\* before the clock at the moment of the removal.
C16_ReaperOnlyExpired ==
    [][(clr = "lockmx" /\ clr' = "start") =>
        \A k \in expired \cap Stored(storage) : IsExpired(storage[k].ttl, now)]_vars

\* C17: storage (the map, or a field of a stored item such as lastUsed) changes only
\* in a step of the goroutine that holds mx for writing, or in a step that finds
\* mx free and is a whole critical section; never while another goroutine holds mx.
C17_ExclusiveMutation ==
    [][storage' # storage =>
        \/ mx = "free"
        \/ \E t \in Threads : mx = t /\ th[t].pc = "put_write" /\ th'[t] # th[t]]_vars

\* C18: a Get that finds the entry's expiresAt before the clock returns
\* ErrNotFound, adds the key to the expired set and leaves storage (the map and
\* every field of every item) and totalSize unchanged; a Get that succeeds returns
\* the data it read and changes nothing but the lastUsed of the item it read,
\* which becomes the current clock value; no step of Get changes totalSize.
C18_LazyExpiryFrame ==
    [][\A t \in Threads :
        (th'[t] # th[t] /\ th[t].op = "Get") =>
            /\ size' = size
            /\ th[t].pc \in {"get", "get_check"} => UNCHANGED <<storage, expired>>
            /\ th[t].pc = "get_check" =>
                (th'[t].pc = "get_mark" <=> IsExpired(th[t].i.ttl, now))
            /\ th[t].pc = "get_mark" =>
                /\ th'[t].pc = "done"
                /\ th'[t].res = [data |-> <<>>, err |-> ErrNotFound, ok |-> FALSE]
                /\ expired' = expired \cup {th[t].key}
                /\ storage' = storage
            /\ th[t].pc = "get_lu" =>
                /\ th'[t].pc = "done"
                /\ th'[t].res = [data |-> th[t].i.data, err |-> NoErr, ok |-> FALSE]
                /\ expired' = expired
                /\ \A k \in Keys :
                    storage'[k] = IF k = th[t].key /\ storage[k].id = th[t].i.id
                                  THEN [storage[k] EXCEPT !.lu = now']
                                  ELSE storage[k]]_vars

C18_Witness ==
    \E t \in Threads :
        /\ th[t].pc = "done" /\ th[t].op = "Get"
        /\ th[t].res.err = ErrNotFound
        /\ th[t].key \in expired
        /\ storage[th[t].key] = th[t].i
        /\ th[t].i.id # 0
        /\ size = Len(th[t].i.data)

\* C19: compact removes an entry only if totalSize >= sizeLimit immediately before
\* that removal, in every pass.
C19_NoEvictionUnderBudget ==
    \A x \in 1..Len(lastEv) : lastEv[x].before >= SizeLimit

\* C20: whenever no API call is in progress (clear and compact passes are single
\* steps), totalSize is at least the sum of len(data) over storage, and so is
\* not negative.
C20_SizeNeverUnder ==
    Quiescent => (size >= TrueSize(storage) /\ size >= 0)

C20_Witness ==
    /\ Quiescent
    /\ Stored(storage) # {}
    /\ size > TrueSize(storage)

====
